---- MODULE Spec2Model ----
(***************************************************************************)
(* Fixed-point (Q16.16) prominent-peak finder: embedded-signal-peaks.c.    *)
(*                                                                         *)
(* int32_t values are TLC integers (the same range); every subtraction and *)
(* negation of the C code goes through Sub32 / Neg32, which wrap modulo    *)
(* 2^32 and come with a predicate telling when the C operation overflows   *)
(* (undefined behaviour for signed int).  What an overflow then does is    *)
(* the variable ubOutcome: "wrap" (two's complement result, e.g. gcc -O2,  *)
(* -fwrapv) or "trap" (the process aborts, e.g. gcc -ftrapv).              *)
(*                                                                         *)
(* Arrays are functions on 0..N-1, indexed as in C.  An input signal       *)
(* (const int16_t signal[]) is a sequence; C's signal[i] is signal[i+1].   *)
(*                                                                         *)
(* Records list their fields in the order in which the field names first   *)
(* occur in this module, which is the order TLC sorts them into: TLC's     *)
(* workers then never reorder a record they share.                         *)
(***************************************************************************)
EXTENDS Integers, Sequences, FiniteSets, TLC

(* ------------------------------------------------------------------ *)
(* Program constants                                                    *)
(* ------------------------------------------------------------------ *)
Q16_SHIFT == 16
Q16_ONE == 65536
Q16_HALF == 32768
MAX_SIGNAL_LENGTH == 512
MAX_PEAKS == 32
PROMINENCE_THRESHOLD_Q16 == 65536
GRADIENT_THRESHOLD_Q16 == 6553
NOISE_FLOOR_Q16 == 655360
INT16_MAX == 32767
INT16_MIN == -32768
INT32_MAX == 2147483647
INT32_MIN == (-2147483647) - 1

PEAK_FP_OK == "PEAK_FP_OK"
PEAK_FP_NO_PEAK_FOUND == "PEAK_FP_NO_PEAK_FOUND"
PEAK_FP_INVALID_INPUT == "PEAK_FP_INVALID_INPUT"
PEAK_FP_BUFFER_TOO_SMALL == "PEAK_FP_BUFFER_TOO_SMALL"
\* not a PeakResultFP: the call never returned (overflow trapped, ubOutcome = "trap")
TRAPPED == "TRAPPED"

\* Pointer arguments are records: NULL, a signal [data |-> <<...>>], a
\* configuration (a PeakConfigFP), or the address of a variable or buffer.
NULL == [null |-> TRUE]
SignalPtr(samples) == [data |-> samples]
Addr(name) == [addr |-> name]

PeakConfigFP(p, g, n) ==
    [prominence_threshold_q16 |-> p, gradient_threshold_q16 |-> g, noise_floor_q16 |-> n]

default_config_fp ==
    PeakConfigFP(PROMINENCE_THRESHOLD_Q16, GRADIENT_THRESHOLD_Q16, NOISE_FLOOR_Q16)

(* ------------------------------------------------------------------ *)
(* int32_t arithmetic                                                   *)
(* ------------------------------------------------------------------ *)
\* a - b is not representable in int32_t
SubOverflows(a, b) ==
    IF b < 0 THEN a > INT32_MAX + b ELSE a < INT32_MIN + b

\* a - b reduced modulo 2^32 into the int32_t range
Sub32(a, b) ==
    IF ~SubOverflows(a, b) THEN a - b
    ELSE IF b < 0 THEN ((a + INT32_MIN) - b) + INT32_MIN
    ELSE ((a - INT32_MIN) - b) - INT32_MIN

NegOverflows(a) == a = INT32_MIN

Neg32(a) == IF a = INT32_MIN THEN INT32_MIN ELSE 0 - a

\* x >> 1 on int32_t: arithmetic shift, i.e. floor(x / 2)
Shr1(x) == x \div 2

to_q16(value) == value * Q16_ONE

\* Q16_HALF is a long constant (1L << 15), so value_q16 + Q16_HALF is
\* computed in long, whose width the target decides: 32 bits on the
\* 32-bit embedded targets (ILP32), 64 bits on LP64 hosts.
LongBits == {32, 64}

\* value_q16 + Q16_HALF leaves the range of a 32-bit long
FromQ16Overflows(value_q16, long_bits) ==
    long_bits = 32 /\ SubOverflows(value_q16, 0 - Q16_HALF)

\* (value_q16 + Q16_HALF) >> Q16_SHIFT.  In a 32-bit long the sum is
\* reduced modulo 2^32 when it overflows; in a 64-bit long it is exact,
\* and floor((q + h) / 2^16) is evaluated as
\* floor(q / 2^16) + floor((q mod 2^16 + h) / 2^16), which keeps every
\* intermediate value within 32 bits.
FromQ16Rounded(value_q16, long_bits) ==
    IF long_bits = 32
    THEN Sub32(value_q16, 0 - Q16_HALF) \div Q16_ONE
    ELSE (value_q16 \div Q16_ONE) + (((value_q16 % Q16_ONE) + Q16_HALF) \div Q16_ONE)

FromQ16Clamp(rounded) ==
    IF rounded > INT16_MAX THEN INT16_MAX
    ELSE IF rounded < INT16_MIN THEN INT16_MIN
    ELSE rounded

from_q16(value_q16, long_bits) == FromQ16Clamp(FromQ16Rounded(value_q16, long_bits))

(* ------------------------------------------------------------------ *)
(* int32_t arrays                                                       *)
(* ------------------------------------------------------------------ *)
\* An array is held as the function on 0..n-1 of its first n elements, n
\* being as far as it has been written; the elements beyond are what they
\* were at program start, 0 (static storage).
Max(a, b) == IF a > b THEN a ELSE b

Extent(arr) == Cardinality(DOMAIN arr)

\* arr[i]
At(arr, i) == IF i \in DOMAIN arr THEN arr[i] ELSE 0

\* arr after "arr[i] = v"
Put(arr, i, v) ==
    [k \in 0..(Max(i + 1, Extent(arr)) - 1) |-> IF k = i THEN v ELSE At(arr, k)]

(* ------------------------------------------------------------------ *)
(* compute_gradient_at                                                  *)
(* ------------------------------------------------------------------ *)
compute_gradient_at(signal_q16, length, index) ==
    IF index = 0
    THEN Sub32(At(signal_q16, 1), At(signal_q16, 0))
    ELSE IF index = length - 1
    THEN Sub32(At(signal_q16, length - 1), At(signal_q16, length - 2))
    ELSE Shr1(Sub32(At(signal_q16, index + 1), At(signal_q16, index - 1)))

\* the subtraction compute_gradient_at performs at index overflows int32_t
GradientOverflows(signal_q16, length, index) ==
    IF index = 0
    THEN SubOverflows(At(signal_q16, 1), At(signal_q16, 0))
    ELSE IF index = length - 1
    THEN SubOverflows(At(signal_q16, length - 1), At(signal_q16, length - 2))
    ELSE SubOverflows(At(signal_q16, index + 1), At(signal_q16, index - 1))

(* ------------------------------------------------------------------ *)
(* calculate_topological_prominence                                     *)
(* ------------------------------------------------------------------ *)
RECURSIVE WalkLeft(_, _, _, _)
\* the loop "for (i = peak_idx - 1; i >= 0; i--)", entered at i with left_min
WalkLeft(signal_q16, peak_value, i, left_min) ==
    IF i < 0 THEN left_min
    ELSE IF At(signal_q16, i) >= peak_value THEN left_min
    ELSE WalkLeft(signal_q16, peak_value, i - 1,
                  IF At(signal_q16, i) < left_min THEN At(signal_q16, i) ELSE left_min)

RECURSIVE WalkRight(_, _, _, _, _)
\* the loop "for (i = peak_idx + 1; i < length; i++)", entered at i with right_min
WalkRight(signal_q16, length, peak_value, i, right_min) ==
    IF i >= length THEN right_min
    ELSE IF At(signal_q16, i) >= peak_value THEN right_min
    ELSE WalkRight(signal_q16, length, peak_value, i + 1,
                   IF At(signal_q16, i) < right_min THEN At(signal_q16, i) ELSE right_min)

\* the lower of the two minima taken as the reference level
HigherOf_lower(left_min, right_min) == IF left_min > right_min THEN right_min ELSE left_min

\* "ref_level = (left_min > right_min) ? left_min : right_min"
HigherOf(left_min, right_min) == IF left_min > right_min THEN left_min ELSE right_min

\* ref_level for the peak at peak_idx
RefLevel(signal_q16, length, peak_idx) ==
    HigherOf(WalkLeft(signal_q16, At(signal_q16, peak_idx), peak_idx - 1,
                      At(signal_q16, peak_idx)),
             WalkRight(signal_q16, length, At(signal_q16, peak_idx), peak_idx + 1,
                       At(signal_q16, peak_idx)))

calculate_topological_prominence(signal_q16, length, peak_idx) ==
    Sub32(At(signal_q16, peak_idx), RefLevel(signal_q16, length, peak_idx))

\* "peak_value - ref_level" overflows int32_t
ProminenceOverflows(signal_q16, length, peak_idx) ==
    SubOverflows(At(signal_q16, peak_idx), RefLevel(signal_q16, length, peak_idx))

(* ------------------------------------------------------------------ *)
(* find_peak_candidates                                                 *)
(* ------------------------------------------------------------------ *)
\* the condition of "if ((is_zero_crossing || is_local_max) && above_noise && strong_gradient)"
IsCandidate(signal_q16, config, i, grad_prev, grad_curr) ==
    LET is_zero_crossing == (grad_prev > 0) /\ (grad_curr <= 0)
        is_local_max     == (At(signal_q16, i) > At(signal_q16, i - 1)) /\
                            (At(signal_q16, i) > At(signal_q16, i + 1))
        above_noise      == At(signal_q16, i) > config.noise_floor_q16
        grad_mag         == IF grad_prev > 0 THEN grad_prev ELSE Neg32(grad_prev)
        strong_gradient  == grad_mag >= config.gradient_threshold_q16
    IN  (is_zero_crossing \/ is_local_max) /\ above_noise /\ strong_gradient

\* The body of the scan loop at index st.i once grad_curr is computed.
\* st = [i, count, grad_prev, peak_indices, ub, done]: done is set by
\* "break", ub records that an int32_t operation overflowed.
ScanBody(signal_q16, config, max_peaks, st, grad_curr, ub) ==
    IF IsCandidate(signal_q16, config, st.i, st.grad_prev, grad_curr)
    THEN IF st.count < max_peaks
         THEN [i |-> st.i + 1,
               grad_prev |-> grad_curr,
               ub |-> ub,
               count |-> st.count + 1,
               peak_indices |-> Put(st.peak_indices, st.count, st.i),
               done |-> FALSE]
         ELSE [st EXCEPT !.ub = ub, !.done = TRUE]
    ELSE [st EXCEPT !.i = st.i + 1, !.grad_prev = grad_curr, !.ub = ub]

\* one iteration of "for (i = 1; i < (length - 1); i++)"
ScanStep(signal_q16, length, config, max_peaks, st) ==
    ScanBody(signal_q16, config, max_peaks, st,
             compute_gradient_at(signal_q16, length, st.i),
             \/ st.ub
             \/ GradientOverflows(signal_q16, length, st.i)
             \/ (st.grad_prev <= 0 /\ NegOverflows(st.grad_prev)))

\* the scan before its loop: count = 0, grad_prev = the gradient at 0
ScanInit(signal_q16, length, peak_indices) ==
    [i |-> 1,
     grad_prev |-> compute_gradient_at(signal_q16, length, 0),
     ub |-> GradientOverflows(signal_q16, length, 0),
     count |-> 0,
     peak_indices |-> peak_indices,
     done |-> FALSE]

RECURSIVE ScanLoop(_, _, _, _, _)
\* the loop run to its end from st
ScanLoop(signal_q16, length, config, max_peaks, st) ==
    IF st.done \/ ~(st.i < length - 1) THEN st
    ELSE ScanLoop(signal_q16, length, config, max_peaks,
                  ScanStep(signal_q16, length, config, max_peaks, st))

\* "*num_peaks = count; return PEAK_FP_OK;"
ScanResult(st) ==
    [ub |-> st.ub,
     peak_indices |-> st.peak_indices,
     result |-> PEAK_FP_OK,
     num_peaks |-> st.count]

\* returns [result, num_peaks, peak_indices, ub]
find_peak_candidates(signal_q16, length, config, peak_indices, max_peaks) ==
    IF length < 3
    THEN [ub |-> FALSE,
          peak_indices |-> peak_indices,
          result |-> PEAK_FP_BUFFER_TOO_SMALL,
          num_peaks |-> 0]
    ELSE ScanResult(ScanLoop(signal_q16, length, config, max_peaks,
                             ScanInit(signal_q16, length, peak_indices)))

(* ------------------------------------------------------------------ *)
(* select_prominent_peak                                                *)
(* ------------------------------------------------------------------ *)
\* the condition without "&& (prominence > max_prominence)": the last
\* candidate over the threshold would win
Improves_threshold_only(prominence, config, max_prominence) ==
    prominence >= config.prominence_threshold_q16

\* "(prominence >= config->prominence_threshold_q16) && (prominence > max_prominence)"
Improves(prominence, config, max_prominence) ==
    (prominence >= config.prominence_threshold_q16) /\ (prominence > max_prominence)

\* The body of the selection loop once the candidate's prominence is known.
\* sel = [i, max_prominence, best_idx, ub]
SelectBody(config, sel, idx, prominence, ub) ==
    IF Improves(prominence, config, sel.max_prominence)
    THEN [i |-> sel.i + 1, ub |-> ub, max_prominence |-> prominence, best_idx |-> idx]
    ELSE [sel EXCEPT !.i = sel.i + 1, !.ub = ub]

\* one iteration of "for (i = 0; i < num_peaks; i++)"
SelectStep(signal_q16, length, peak_indices, config, sel) ==
    SelectBody(config, sel, At(peak_indices, sel.i),
               calculate_topological_prominence(signal_q16, length, At(peak_indices, sel.i)),
               sel.ub \/ ProminenceOverflows(signal_q16, length, At(peak_indices, sel.i)))

SelectInit == [i |-> 0, ub |-> FALSE, max_prominence |-> INT32_MIN, best_idx |-> -1]

RECURSIVE SelectLoop(_, _, _, _, _, _)
SelectLoop(signal_q16, length, peak_indices, num_peaks, config, sel) ==
    IF ~(sel.i < num_peaks) THEN sel
    ELSE SelectLoop(signal_q16, length, peak_indices, num_peaks, config,
                    SelectStep(signal_q16, length, peak_indices, config, sel))

\* what follows the loop: best_idx >= 0 writes *best_peak_idx and returns OK
SelectResult(sel, old_peak_index) ==
    IF sel.best_idx >= 0
    THEN [ub |-> sel.ub, result |-> PEAK_FP_OK, peak_index |-> sel.best_idx]
    ELSE [ub |-> sel.ub, result |-> PEAK_FP_NO_PEAK_FOUND, peak_index |-> old_peak_index]

\* returns [result, peak_index, ub]; peak_index is *best_peak_idx after the call
select_prominent_peak(signal_q16, length, peak_indices, num_peaks, config, old_peak_index) ==
    SelectResult(SelectLoop(signal_q16, length, peak_indices, num_peaks, config, SelectInit),
                 old_peak_index)

(* ------------------------------------------------------------------ *)
(* entry points                                                         *)
(* ------------------------------------------------------------------ *)
\* the conversion loop stopping one sample early: "i < length - 1"
ConvertLoop_one_short(signal, length, buffer) ==
    [i \in 0..(Max(length - 1, Extent(buffer)) - 1) |->
        IF i < length - 1 THEN to_q16(signal[i + 1]) ELSE buffer[i]]

\* "for (i = 0; i < length; i++) buffer[i] = to_q16(signal[i]);"
ConvertLoop(signal, length, buffer) ==
    [i \in 0..(Max(length, Extent(buffer)) - 1) |->
        IF i < length THEN to_q16(signal[i + 1]) ELSE buffer[i]]

\* "config = (user_config != NULL) ? user_config : &default_config_fp"
EffectiveConfig(user_config) ==
    IF user_config /= NULL THEN user_config ELSE default_config_fp

\* A call's outcome: the return code, *peak_index after the call, the two
\* scratch buffers after the call, and whether an int32_t operation overflowed.
Outcome(result, peak_index, sbuf, pbuf, ub) ==
    [signal_q16 |-> sbuf,
     ub |-> ub,
     result |-> result,
     peak_index |-> peak_index,
     peaks |-> pbuf]

\* "result = select_prominent_peak(...); return result;" given its result sp
ReturnSelected(sq, fc, sp) ==
    Outcome(sp.result, sp.peak_index, sq, fc.peak_indices, fc.ub \/ sp.ub)

\* what follows find_peak_candidates, given its result fc
AfterCandidates(a, config, sq, fc) ==
    IF fc.result /= PEAK_FP_OK
    THEN Outcome(fc.result, a.old_peak_index, sq, fc.peak_indices, fc.ub)
    ELSE IF fc.num_peaks = 0
    THEN Outcome(PEAK_FP_NO_PEAK_FOUND, a.old_peak_index, sq, fc.peak_indices, fc.ub)
    ELSE ReturnSelected(sq, fc,
             select_prominent_peak(sq, a.length, fc.peak_indices, fc.num_peaks,
                                   config, a.old_peak_index))

\* what follows the conversion loop, sq being the signal buffer it filled
AfterConvert(a, config, sq, pbuf) ==
    AfterCandidates(a, config, sq,
                    find_peak_candidates(sq, a.length, config, pbuf, MAX_PEAKS))

\* a: the arguments [signal, length, peak_index, user_config, old_peak_index];
\* sbuf, pbuf: s_signal_q16 and s_peak_candidates before the call
find_prominent_peak_fp(a, sbuf, pbuf) ==
    IF a.signal = NULL \/ a.peak_index = NULL
    THEN Outcome(PEAK_FP_INVALID_INPUT, a.old_peak_index, sbuf, pbuf, FALSE)
    ELSE IF a.length <= 0 \/ a.length > MAX_SIGNAL_LENGTH
    THEN Outcome(PEAK_FP_INVALID_INPUT, a.old_peak_index, sbuf, pbuf, FALSE)
    ELSE AfterConvert(a, EffectiveConfig(a.user_config),
                      ConvertLoop(a.signal.data, a.length, sbuf), pbuf)

\* the buffered entry point without the null checks of its two scratch buffers
find_prominent_peak_fp_buffered_unchecked(a, sbuf, pbuf) ==
    IF a.signal = NULL \/ a.peak_index = NULL
    THEN Outcome(PEAK_FP_INVALID_INPUT, a.old_peak_index, sbuf, pbuf, FALSE)
    ELSE IF a.length <= 0 \/ a.length > MAX_SIGNAL_LENGTH
    THEN Outcome(PEAK_FP_INVALID_INPUT, a.old_peak_index, sbuf, pbuf, FALSE)
    ELSE AfterConvert(a, EffectiveConfig(a.user_config),
                      ConvertLoop(a.signal.data, a.length, sbuf), pbuf)

\* a also carries signal_q16_buffer and peaks_buffer;
\* sbuf, pbuf: the contents of those two caller buffers before the call
find_prominent_peak_fp_buffered(a, sbuf, pbuf) ==
    IF a.signal = NULL \/ a.peak_index = NULL \/
       a.signal_q16_buffer = NULL \/ a.peaks_buffer = NULL
    THEN Outcome(PEAK_FP_INVALID_INPUT, a.old_peak_index, sbuf, pbuf, FALSE)
    ELSE IF a.length <= 0 \/ a.length > MAX_SIGNAL_LENGTH
    THEN Outcome(PEAK_FP_INVALID_INPUT, a.old_peak_index, sbuf, pbuf, FALSE)
    ELSE AfterConvert(a, EffectiveConfig(a.user_config),
                      ConvertLoop(a.signal.data, a.length, sbuf), pbuf)

\* "return (float)prominence_q16 / (float)Q16_ONE", sq being s_signal_q16 converted
ProminenceOf(sq, length, peak_index) ==
    [value_q16 |-> calculate_topological_prominence(sq, length, peak_index),
     signal_q16 |-> sq,
     ub |-> ProminenceOverflows(sq, length, peak_index),
     valid |-> TRUE]

\* returns [value_q16, valid, signal_q16, ub]: the float returned is
\* value_q16 / 65536 (0.0f when ~valid); signal_q16 is s_signal_q16 afterwards
get_peak_prominence_float(signal, length, peak_index, sbuf) ==
    IF length <= 0 \/ length > MAX_SIGNAL_LENGTH \/ peak_index < 0 \/ peak_index >= length
    THEN [value_q16 |-> 0, signal_q16 |-> sbuf, ub |-> FALSE, valid |-> FALSE]
    ELSE ProminenceOf(ConvertLoop(signal, length, sbuf), length, peak_index)

(* ------------------------------------------------------------------ *)
(* State                                                                *)
(* ------------------------------------------------------------------ *)
VARIABLES
    ubOutcome,   \* what a signed overflow does in this build: "wrap" or "trap"
    sig_mem,     \* int32_t signal buffers by address: the static one and the callers'
    peak_mem,    \* int32_t candidate buffers by address
    pc,          \* sequential caller: "idle", "returned" or "aborted"
    call,        \* the last call made by the sequential caller
    ret,         \* what that call returned
    thr          \* the concurrent callers of find_prominent_peak_fp_buffered

vars == <<ubOutcome, sig_mem, peak_mem, pc, call, ret, thr>>

\* addresses of the two static buffers
s_signal_q16 == "s_signal_q16"
s_peak_candidates == "s_peak_candidates"

\* addresses of the scratch buffers callers own
CallerSignalBuffers == {"A", "B"}
CallerPeakBuffers == {"PA", "PB"}

\* static storage is zero-initialised; so are the callers' buffers here:
\* nothing written yet
ZeroBuffer == <<>>

InitMemory ==
    /\ sig_mem = [b \in {s_signal_q16} \cup CallerSignalBuffers |-> ZeroBuffer]
    /\ peak_mem = [b \in {s_peak_candidates} \cup CallerPeakBuffers |-> ZeroBuffer]

(* ------------------------------------------------------------------ *)
(* Inputs                                                               *)
(* ------------------------------------------------------------------ *)
MaxLen == 5

\* sample values: the int16_t extremes, one value under the default noise
\* floor (10) and one above it
Samples == {INT16_MIN, 0, 20, INT16_MAX}

RECURSIVE SeqsUpTo(_, _)
\* all non-empty sequences over S of length at most n
SeqsUpTo(S, n) ==
    IF n = 0 THEN {}
    ELSE LET shorter == SeqsUpTo(S, n - 1)
         IN  {<<x>> : x \in S} \cup shorter \cup
             {Append(q, x) : q \in {r \in shorter : Len(r) = n - 1}, x \in S}

\* the signals of the test suite
SimplePeak == <<10, 30, 50, 70, 90, 70, 50, 30, 10>>
MultiplePeaks == <<10, 40, 70, 80, 60, 40, 70, 100, 50, 20>>
MatlabProminence == <<0, 10, 5, 20, 5, 15, 0>>
PeakAtStart == <<100, 80, 60, 40, 20>>
PeakAtEnd == <<20, 40, 60, 80, 100>>
FlatSignal == <<50, 50, 50, 50, 50>>
VeryShort == <<10, 20>>
SmallPeak == <<10, 15, 20, 25, 20, 15, 10>>

TestSignals ==
    {SimplePeak, MultiplePeaks, MatlabProminence, PeakAtStart, PeakAtEnd,
     FlatSignal, VeryShort, SmallPeak}

\* pat repeated up to length n
Periodic(pat, n) == [i \in 1..n |-> pat[((i - 1) % Len(pat)) + 1]]

\* signals with more than MAX_PEAKS peaks, one of the full MAX_SIGNAL_LENGTH
LongSignals ==
    {Periodic(<<0, 20>>, 2 * MAX_PEAKS + 6),
     Periodic(<<0, 20, 0, INT16_MAX>>, MAX_SIGNAL_LENGTH)}

Signals == SeqsUpTo(Samples, MaxLen) \cup TestSignals \cup LongSignals

\* the relaxed configuration of test_custom_config
custom_config == PeakConfigFP(6553, 3276, 327680)

\* prominence thresholds a caller may configure (Q16.16): 0, 0.1, 1.0, 25.0
ProminenceThresholds == {0, 6553, PROMINENCE_THRESHOLD_Q16, 25 * Q16_ONE}

UserConfigs ==
    {NULL, custom_config,
     PeakConfigFP(25 * Q16_ONE, GRADIENT_THRESHOLD_Q16, NOISE_FLOOR_Q16),
     PeakConfigFP(0, 0, 0)}

\* lengths outside (0, MAX_SIGNAL_LENGTH]
BadLengths == {-1, 0, MAX_SIGNAL_LENGTH + 1}

\* the caller's "int32_t peak_idx = -1" before the call
OldPeakIndex == -1

Args(signal, length, peak_index, user_config) ==
    [length |-> length,
     old_peak_index |-> OldPeakIndex,
     peak_index |-> peak_index,
     signal |-> signal,
     user_config |-> user_config]

\* calls with a signal, its length and somewhere to write the index
WellFormedArgs(sigs, configs) ==
    {Args(SignalPtr(s), Len(s), Addr("peak_idx"), c) : s \in sigs, c \in configs}

\* calls with a null pointer or a length out of range among them
MalformedArgs(sigs) ==
    {Args(SignalPtr(s), n, p, NULL) :
        s \in sigs, n \in BadLengths, p \in {NULL, Addr("peak_idx")}}
    \cup {Args(SignalPtr(s), Len(s), NULL, NULL) : s \in sigs}
    \cup {Args(NULL, n, p, NULL) : n \in BadLengths \cup {3}, p \in {NULL, Addr("peak_idx")}}

WithBuffers(a, sb, pb) ==
    [length |-> a.length,
     old_peak_index |-> a.old_peak_index,
     peak_index |-> a.peak_index,
     signal |-> a.signal,
     user_config |-> a.user_config,
     signal_q16_buffer |-> sb,
     peaks_buffer |-> pb]

NoCall == [fn |-> "none"]
NoThreads == <<>>

(* ------------------------------------------------------------------ *)
(* Sequential caller: each call runs to completion                      *)
(* ------------------------------------------------------------------ *)
\* the contents of the buffer a pointer argument names (none for NULL)
Deref(mem, ptr) == IF ptr = NULL THEN <<>> ELSE mem[ptr.addr]

\* mem after the callee left contents in the buffer ptr names
Store(mem, ptr, contents) == IF ptr = NULL THEN mem ELSE [mem EXCEPT ![ptr.addr] = contents]

\* the call with outcome o overflowed in a build that traps on overflow
Traps(o) == o.ub /\ ubOutcome = "trap"

\* what the caller sees of a call with outcome o: the code returned and
\* *peak_index, or that the process aborted
Observed(a, o) ==
    IF Traps(o)
    THEN [result |-> TRAPPED, peak_index |-> a.old_peak_index]
    ELSE [result |-> o.result, peak_index |-> o.peak_index]

\* The call fn(a), having worked in the buffers sb and pb with outcome o,
\* returns; or it has aborted, if it overflowed in a build that traps.
Return(fn, a, o, sb, pb) ==
    /\ call' = [a |-> a, fn |-> fn]
    /\ ret' = Observed(a, o)
    /\ IF Traps(o)
       THEN /\ pc' = "aborted"
            /\ UNCHANGED <<sig_mem, peak_mem>>
       ELSE /\ pc' = "returned"
            /\ sig_mem' = Store(sig_mem, sb, o.signal_q16)
            /\ peak_mem' = Store(peak_mem, pb, o.peaks)
    /\ UNCHANGED <<ubOutcome, thr>>

\* find_prominent_peak_fp: works in the static buffers
CallFindProminentPeakFp(a) ==
    /\ pc /= "aborted"
    /\ Return("find_prominent_peak_fp", a,
              find_prominent_peak_fp(a, sig_mem[s_signal_q16], peak_mem[s_peak_candidates]),
              Addr(s_signal_q16), Addr(s_peak_candidates))

\* find_prominent_peak_fp_buffered: works in the buffers the caller passes
CallFindProminentPeakFpBuffered(a) ==
    /\ pc /= "aborted"
    /\ Return("find_prominent_peak_fp_buffered", a,
              find_prominent_peak_fp_buffered(a, Deref(sig_mem, a.signal_q16_buffer),
                                              Deref(peak_mem, a.peaks_buffer)),
              a.signal_q16_buffer, a.peaks_buffer)

\* get_peak_prominence_float returns, or has aborted
ReturnProminence(a, o) ==
    /\ call' = [a |-> a, fn |-> "get_peak_prominence_float"]
    /\ IF Traps(o)
       THEN /\ pc' = "aborted"
            /\ ret' = [value_q16 |-> 0, result |-> TRAPPED]
            /\ UNCHANGED sig_mem
       ELSE /\ pc' = "returned"
            /\ ret' = [value_q16 |-> o.value_q16,
                       result |-> IF o.valid THEN "value" ELSE "zero"]
            /\ sig_mem' = [sig_mem EXCEPT ![s_signal_q16] = o.signal_q16]
    /\ UNCHANGED <<ubOutcome, peak_mem, thr>>

\* get_peak_prominence_float: converts into the static signal buffer
CallGetPeakProminenceFloat(signal, length, peak_index) ==
    /\ pc /= "aborted"
    /\ ReturnProminence([length |-> length, peak_index |-> peak_index, signal |-> signal],
                        get_peak_prominence_float(signal, length, peak_index,
                                                  sig_mem[s_signal_q16]))

(* ------------------------------------------------------------------ *)
(* Spec: one call, on any input, from freshly initialised memory        *)
(* ------------------------------------------------------------------ *)
DefaultCalls ==
    WellFormedArgs(Signals, UserConfigs)
    \cup MalformedArgs({s \in Signals : Len(s) <= 2} \cup {SimplePeak})

BufferedCalls ==
    {WithBuffers(a, Addr("A"), Addr("PA")) : a \in DefaultCalls}
    \cup {WithBuffers(Args(SignalPtr(s), Len(s), Addr("peak_idx"), NULL), sb, pb) :
            s \in {VeryShort, SimplePeak}, sb \in {NULL, Addr("A")}, pb \in {NULL, Addr("PA")}}

\* (signal, length, peak_index) passed to get_peak_prominence_float
ProminenceCalls ==
    {<<s, Len(s), p>> : s \in Signals \ LongSignals, p \in 0..(MaxLen + 4)}
    \cup {<<s, n, p>> : s \in {VeryShort, SimplePeak}, n \in BadLengths, p \in {-1, 0, 1}}
    \cup {<<s, Len(s), -1>> : s \in {VeryShort, SimplePeak}}

Init ==
    /\ ubOutcome \in {"wrap", "trap"}
    /\ InitMemory
    /\ pc = "idle"
    /\ call = NoCall
    /\ ret = NoCall
    /\ thr = NoThreads

Next ==
    /\ pc = "idle"
    /\ \/ \E a \in DefaultCalls : CallFindProminentPeakFp(a)
       \/ \E a \in BufferedCalls : CallFindProminentPeakFpBuffered(a)
       \/ \E c \in ProminenceCalls : CallGetPeakProminenceFloat(c[1], c[2], c[3])

Spec == Init /\ [][Next]_vars


(* ------------------------------------------------------------------ *)
(* SpecSeq: any sequence of calls by one caller, memory carried over    *)
(* ------------------------------------------------------------------ *)
SeqMaxLen == 3

\* a signal on which peak_value - ref_level overflows
OverflowSignal == <<INT16_MIN, 20, INT16_MIN>>

\* short signals, and two that leave more behind in the static buffers than
\* a short signal overwrites
ShortSignals == SeqsUpTo({0, 20}, SeqMaxLen)
SeqSignals == ShortSignals \cup {MultiplePeaks, OverflowSignal}

SeqDefaultCalls ==
    WellFormedArgs(SeqSignals, {NULL})
    \cup WellFormedArgs({MultiplePeaks, <<0, 20, 0>>}, {PeakConfigFP(0, 0, 0)})
    \cup {Args(SignalPtr(VeryShort), 0, Addr("peak_idx"), NULL)}

SeqBufferedCalls ==
    {WithBuffers(a, Addr("A"), Addr("PA")) :
        a \in WellFormedArgs({MultiplePeaks, <<0, 20, 0>>, VeryShort}, {NULL})}

SeqProminenceCalls ==
    {<<MultiplePeaks, Len(MultiplePeaks), 7>>, <<<<0, 20, 0>>, 3, 1>>,
     <<OverflowSignal, 3, 1>>, <<VeryShort, 2, 2>>}

InitSeq == Init

NextSeq ==
    \/ \E a \in SeqDefaultCalls : CallFindProminentPeakFp(a)
    \/ \E a \in SeqBufferedCalls : CallFindProminentPeakFpBuffered(a)
    \/ \E c \in SeqProminenceCalls : CallGetPeakProminenceFloat(c[1], c[2], c[3])

SpecSeq == InitSeq /\ [][NextSeq]_vars

(* ------------------------------------------------------------------ *)
(* SpecConc: two threads in find_prominent_peak_fp_buffered, each with  *)
(* scratch buffers of its own, interleaved loop iteration by iteration  *)
(* ------------------------------------------------------------------ *)
ConcMaxLen == 3

Threads == {1, 2}

\* the scratch buffers thread t owns
OwnSignalBuffer(t) == IF t = 1 THEN Addr("A") ELSE Addr("B")
OwnPeaksBuffer(t) == IF t = 1 THEN Addr("PA") ELSE Addr("PB")

ConcSignals == SeqsUpTo({0, 20}, ConcMaxLen) \cup {MultiplePeaks, OverflowSignal}

ConcCalls ==
    WellFormedArgs(ConcSignals, {NULL})
    \cup WellFormedArgs({MultiplePeaks, <<0, 20, 0>>}, {PeakConfigFP(0, 0, 0)})
    \cup {Args(SignalPtr(VeryShort), 0, Addr("peak_idx"), NULL)}

\* the buffer the buffered entry point converts into and scans
\* ("signal_q16_buffer[i] = ...", "find_peak_candidates(signal_q16_buffer, ...")
SignalBufferStatic(a) == Addr(s_signal_q16)

SignalBufferOf(a) == a.signal_q16_buffer

\* the buffer it collects the candidates in
PeaksBufferOf(a) == a.peaks_buffer

IdleThread == [pc |-> "idle"]

\* thread t has returned result, *peak_index being peak_index
Returned(t, result, peak_index) ==
    thr' = [thr EXCEPT ![t] = [a |-> thr[t].a,
                               result |-> result,
                               peak_index |-> peak_index,
                               pc |-> "done"]]

\* thread t goes on with registers regs, unless ub says an int32_t operation
\* has just overflowed and the build traps: then the process is gone
GoOn(t, regs, ub) ==
    IF ub /\ ubOutcome = "trap"
    THEN pc' = "aborted" /\ thr' = thr
    ELSE pc' = pc /\ thr' = [thr EXCEPT ![t] = regs]

\* thread t calls find_prominent_peak_fp_buffered(a): the validation
Enter(t, a) ==
    /\ pc /= "aborted"
    /\ thr[t].pc = "idle"
    /\ IF \/ a.signal = NULL \/ a.peak_index = NULL
          \/ a.signal_q16_buffer = NULL \/ a.peaks_buffer = NULL
          \/ a.length <= 0 \/ a.length > MAX_SIGNAL_LENGTH
       THEN thr' = [thr EXCEPT ![t] = [a |-> a,
                                       result |-> PEAK_FP_INVALID_INPUT,
                                       peak_index |-> a.old_peak_index,
                                       pc |-> "done"]]
       ELSE thr' = [thr EXCEPT ![t] = [a |-> a, i |-> 0, pc |-> "convert"]]
    /\ UNCHANGED <<ubOutcome, sig_mem, peak_mem, pc, call, ret>>

\* one iteration of the conversion loop, or its exit
Convert(t) ==
    /\ pc /= "aborted"
    /\ thr[t].pc = "convert"
    /\ IF thr[t].i < thr[t].a.length
       THEN /\ sig_mem' = [sig_mem EXCEPT ![SignalBufferOf(thr[t].a).addr] =
                              Put(@, thr[t].i, to_q16(thr[t].a.signal.data[thr[t].i + 1]))]
            /\ thr' = [thr EXCEPT ![t].i = thr[t].i + 1]
       ELSE /\ sig_mem' = sig_mem
            /\ thr' = [thr EXCEPT ![t] = [a |-> thr[t].a, pc |-> "candidates"]]
    /\ UNCHANGED <<ubOutcome, peak_mem, pc, call, ret>>

\* find_peak_candidates up to its loop
Candidates(t) ==
    /\ pc /= "aborted"
    /\ thr[t].pc = "candidates"
    /\ IF thr[t].a.length < 3
       THEN /\ Returned(t, PEAK_FP_BUFFER_TOO_SMALL, thr[t].a.old_peak_index)
            /\ pc' = pc
       ELSE GoOn(t, [a |-> thr[t].a,
                     st |-> ScanInit(sig_mem[SignalBufferOf(thr[t].a).addr],
                                     thr[t].a.length, ZeroBuffer),
                     pc |-> "scan"],
                 GradientOverflows(sig_mem[SignalBufferOf(thr[t].a).addr],
                                   thr[t].a.length, 0))
    /\ UNCHANGED <<ubOutcome, sig_mem, peak_mem, call, ret>>

\* thread t having done one iteration of the scan loop, which left st
Scanned(t, st) ==
    /\ GoOn(t, [a |-> thr[t].a,
                st |-> [st EXCEPT !.peak_indices = ZeroBuffer],
                pc |-> "scan"], st.ub)
    /\ peak_mem' = IF st.ub /\ ubOutcome = "trap" THEN peak_mem
                   ELSE [peak_mem EXCEPT ![PeaksBufferOf(thr[t].a).addr] = st.peak_indices]

\* one iteration of the scan loop on the thread's buffers, or its exit and
\* the "num_candidates == 0" test
Scan(t) ==
    /\ pc /= "aborted"
    /\ thr[t].pc = "scan"
    /\ IF ~thr[t].st.done /\ thr[t].st.i < thr[t].a.length - 1
       THEN Scanned(t, ScanStep(sig_mem[SignalBufferOf(thr[t].a).addr], thr[t].a.length,
                                EffectiveConfig(thr[t].a.user_config), MAX_PEAKS,
                                [thr[t].st EXCEPT !.peak_indices =
                                    peak_mem[PeaksBufferOf(thr[t].a).addr]]))
       ELSE /\ IF thr[t].st.count = 0
               THEN Returned(t, PEAK_FP_NO_PEAK_FOUND, thr[t].a.old_peak_index)
               ELSE thr' = [thr EXCEPT ![t] = [a |-> thr[t].a,
                                               sel |-> SelectInit,
                                               pc |-> "select",
                                               num_candidates |-> thr[t].st.count]]
            /\ UNCHANGED <<peak_mem, pc>>
    /\ UNCHANGED <<ubOutcome, sig_mem, call, ret>>

\* thread t having done one iteration of the selection loop, which left sel
Selected(t, sel) ==
    GoOn(t, [thr[t] EXCEPT !.sel = sel], sel.ub)

\* thread t returns what select_prominent_peak returned
ReturnedSelected(t, sp) ==
    Returned(t, sp.result, sp.peak_index)

\* one iteration of the selection loop, or its exit and the return
Select(t) ==
    /\ pc /= "aborted"
    /\ thr[t].pc = "select"
    /\ IF thr[t].sel.i < thr[t].num_candidates
       THEN Selected(t, SelectStep(sig_mem[SignalBufferOf(thr[t].a).addr], thr[t].a.length,
                                   peak_mem[PeaksBufferOf(thr[t].a).addr],
                                   EffectiveConfig(thr[t].a.user_config), thr[t].sel))
       ELSE /\ ReturnedSelected(t, SelectResult(thr[t].sel, thr[t].a.old_peak_index))
            /\ pc' = pc
    /\ UNCHANGED <<ubOutcome, sig_mem, peak_mem, call, ret>>

InitConc ==
    /\ ubOutcome \in {"wrap", "trap"}
    /\ InitMemory
    /\ pc = "idle"
    /\ call = NoCall
    /\ ret = NoCall
    /\ thr = [t \in Threads |-> IdleThread]

NextConc ==
    \/ \E t \in Threads, a \in ConcCalls :
          Enter(t, WithBuffers(a, OwnSignalBuffer(t), OwnPeaksBuffer(t)))
    \/ \E t \in Threads : Convert(t)
    \/ \E t \in Threads : Candidates(t)
    \/ \E t \in Threads : Scan(t)
    \/ \E t \in Threads : Select(t)

SpecConc == InitConc /\ [][NextConc]_vars

(* ------------------------------------------------------------------ *)
(* SpecConv: the Q16.16 conversions, applied to any input              *)
(* ------------------------------------------------------------------ *)
ConvSpread == 2

\* every int16_t value
Int16Values == INT16_MIN..INT16_MAX

\* fixed-point values where rounding or clamping changes: zero, half a
\* unit either side of it, one unit, the largest int16_t in Q16.16, and
\* the largest value that does not round up to 32768
Q16Marks ==
    {0, Q16_HALF, 0 - Q16_HALF, Q16_ONE, 0 - Q16_ONE,
     to_q16(INT16_MAX), INT32_MAX - Q16_HALF,
     to_q16(INT16_MIN + 1), to_q16(INT16_MIN + 1) - Q16_HALF}

\* int32_t inputs of from_q16: around the marks and at both ends of int32_t
Q16Inputs ==
    {m + d : m \in Q16Marks, d \in (0 - ConvSpread)..ConvSpread}
    \cup {INT32_MAX - d : d \in 0..(2 * ConvSpread + 1)}
    \cup {INT32_MIN + d : d \in 0..ConvSpread}

\* from_q16(value_q16) returns, or has aborted where the sum overflows
\* in a build that traps
CallFromQ16(fn, value, value_q16, long_bits) ==
    /\ pc /= "aborted"
    /\ call' = [a |-> [value |-> value, value_q16 |-> value_q16, long_bits |-> long_bits],
                fn |-> fn]
    /\ IF FromQ16Overflows(value_q16, long_bits) /\ ubOutcome = "trap"
       THEN /\ pc' = "aborted"
            /\ ret' = [value |-> 0, result |-> TRAPPED]
       ELSE /\ pc' = "returned"
            /\ ret' = [value |-> from_q16(value_q16, long_bits), result |-> "value"]
    /\ UNCHANGED <<ubOutcome, sig_mem, peak_mem, thr>>

\* from_q16(to_q16(value))
CallRoundTrip(value, long_bits) ==
    CallFromQ16("round_trip", value, to_q16(value), long_bits)

InitConv == Init

NextConv ==
    /\ pc = "idle"
    /\ \/ \E q \in Q16Inputs, b \in LongBits : CallFromQ16("from_q16", 0, q, b)
       \/ \E v \in Int16Values, b \in LongBits : CallRoundTrip(v, b)

SpecConv == InitConv /\ [][NextConv]_vars

(* ------------------------------------------------------------------ *)
(* What the claims speak of, in native sample units                     *)
(* ------------------------------------------------------------------ *)
SetMax(S) == CHOOSE x \in S : \A y \in S : y <= x
SetMin(S) == CHOOSE x \in S : \A y \in S : x <= y

\* the nearest index left of p holding a sample >= signal[p], or -1
LeftStop(signal, p) ==
    SetMax({-1} \cup {j \in 0..(p - 1) : signal[j + 1] >= signal[p + 1]})

\* the nearest index right of p holding a sample >= signal[p], or the length
RightStop(signal, p) ==
    SetMin({Len(signal)} \cup {j \in (p + 1)..(Len(signal) - 1) : signal[j + 1] >= signal[p + 1]})

\* the minimum of signal[p] and the samples strictly between lo and hi
MinBetween(signal, p, lo, hi) ==
    SetMin({signal[p + 1]} \cup {signal[k + 1] : k \in (lo + 1)..(hi - 1)})

\* topological prominence of index p: signal[p] - max(leftMin, rightMin)
TopoProminence(signal, p) ==
    signal[p + 1] - Max(MinBetween(signal, p, LeftStop(signal, p), p),
                        MinBetween(signal, p, p, RightStop(signal, p)))

\* units * 2^16 >= threshold_q16, without forming the product
MeetsThreshold(units, threshold_q16) == units >= 0 - ((0 - threshold_q16) \div Q16_ONE)

\* value_q16 is exactly units * 2^16
IsQ16Of(value_q16, units) == value_q16 % Q16_ONE = 0 /\ value_q16 \div Q16_ONE = units

\* the set of indices find_peak_candidates reported in fc
CandidateSet(fc) == {At(fc.peak_indices, j) : j \in 0..(fc.num_peaks - 1)}

\* the candidates find_peak_candidates detects for the call a
DetectedCandidates(a) ==
    CandidateSet(find_peak_candidates(ConvertLoop(a.signal.data, a.length, ZeroBuffer),
                                      a.length, EffectiveConfig(a.user_config),
                                      ZeroBuffer, MAX_PEAKS))

\* a call that passes validation and is long enough to scan
ValidCall(a) ==
    /\ a.signal /= NULL
    /\ a.peak_index /= NULL
    /\ a.length >= 3
    /\ a.length <= MAX_SIGNAL_LENGTH

\* find_prominent_peak_fp was called and is over (returned or aborted)
FpCalled == call.fn = "find_prominent_peak_fp"
FpReturned == pc = "returned" /\ FpCalled

\* some int32_t operation of the call a overflows
Overflowing(a) ==
    ValidCall(a) /\ find_prominent_peak_fp(a, ZeroBuffer, ZeroBuffer).ub

\* k has the greatest prominence among cands, and is the first to have it
IsFirstMostProminent(signal, cands, k) ==
    /\ k \in cands
    /\ \A c \in cands : TopoProminence(signal, c) <= TopoProminence(signal, k)
    /\ \A c \in cands : TopoProminence(signal, c) = TopoProminence(signal, k) => k <= c

(* ------------------------------------------------------------------ *)
(* C1                                                                   *)
(* ------------------------------------------------------------------ *)
\* the selection rule holds of the index the call in call/ret returned
SelectionRule ==
    /\ IsFirstMostProminent(call.a.signal.data, DetectedCandidates(call.a), ret.peak_index)
    /\ MeetsThreshold(TopoProminence(call.a.signal.data, ret.peak_index),
                      EffectiveConfig(call.a.user_config).prominence_threshold_q16)

\* C1: when find_prominent_peak_fp returns PEAK_FP_OK on a valid signal of
\* length >= 3, the index written is a detected candidate whose topological
\* prominence is >= the prominence threshold and is the maximum over all
\* detected candidates, the lowest index winning a tie.
C1_MostProminentSelected ==
    (FpReturned /\ ValidCall(call.a) /\ ret.result = PEAK_FP_OK) => SelectionRule

\* C1 on the calls in which no int32_t operation overflows
C1_WithoutOverflow ==
    (FpReturned /\ ValidCall(call.a) /\ ret.result = PEAK_FP_OK /\ ~Overflowing(call.a))
        => SelectionRule

\* Scenario B and a tie: the cases C1 is about are reached
C1_Reached ==
    /\ FpReturned /\ ret.result = PEAK_FP_OK
    /\ Cardinality(DetectedCandidates(call.a)) >= 2
    /\ \E c \in DetectedCandidates(call.a) :
          /\ c /= ret.peak_index
          /\ TopoProminence(call.a.signal.data, c)
                 = TopoProminence(call.a.signal.data, ret.peak_index)

(* ------------------------------------------------------------------ *)
(* C2                                                                   *)
(* ------------------------------------------------------------------ *)
ProminenceReturned == pc = "returned" /\ call.fn = "get_peak_prominence_float"

\* C2: calculate_topological_prominence returns signal[p] - max(leftMin,
\* rightMin) for every signal and every index p with 0 <= p < length (in
\* Q16.16: that many units times 2^16).
C2_ProminenceIsPeakMinusHigherMinimum ==
    (ProminenceReturned /\ ret.result = "value")
        => IsQ16Of(ret.value_q16, TopoProminence(call.a.signal, call.a.peak_index))

\* C2 on the calls in which peak_value - ref_level does not overflow
C2_WithoutOverflow ==
    (ProminenceReturned /\ ret.result = "value"
       /\ ~ProminenceOverflows(ConvertLoop(call.a.signal, call.a.length, ZeroBuffer),
                               call.a.length, call.a.peak_index))
        => IsQ16Of(ret.value_q16, TopoProminence(call.a.signal, call.a.peak_index))

\* Scenario C: [0,10,5,20,5,15,0], p = 3 gives 20 units
C2_Reached ==
    /\ ProminenceReturned
    /\ call.a.signal = MatlabProminence /\ call.a.peak_index = 3
    /\ ret.value_q16 = 20 * Q16_ONE

(* ------------------------------------------------------------------ *)
(* C3                                                                   *)
(* ------------------------------------------------------------------ *)
EntryPoints == {"find_prominent_peak_fp", "find_prominent_peak_fp_buffered"}
EntryPointCalled == pc /= "idle" /\ call.fn \in EntryPoints

\* a required pointer is null or the length is outside (0, MAX_SIGNAL_LENGTH]
InvalidInput(fn, a) ==
    \/ a.signal = NULL
    \/ a.peak_index = NULL
    \/ fn = "find_prominent_peak_fp_buffered"
         /\ (a.signal_q16_buffer = NULL \/ a.peaks_buffer = NULL)
    \/ a.length <= 0
    \/ a.length > MAX_SIGNAL_LENGTH

\* C3: both entry points return PEAK_FP_INVALID_INPUT exactly when a required
\* pointer is null or length <= 0 or length > MAX_SIGNAL_LENGTH; otherwise
\* they return PEAK_FP_BUFFER_TOO_SMALL exactly when length < 3, whatever the
\* samples and the configuration.
C3_ValidationCodes ==
    EntryPointCalled =>
        /\ (ret.result = PEAK_FP_INVALID_INPUT) <=> InvalidInput(call.fn, call.a)
        /\ ~InvalidInput(call.fn, call.a)
              => ((ret.result = PEAK_FP_BUFFER_TOO_SMALL) <=> (call.a.length < 3))

\* the buffered variant was refused for a null scratch buffer alone
C3_Reached ==
    /\ pc = "returned" /\ call.fn = "find_prominent_peak_fp_buffered"
    /\ call.a.signal = SignalPtr(SimplePeak) /\ call.a.length = Len(SimplePeak)
    /\ call.a.peak_index /= NULL
    /\ call.a.signal_q16_buffer /= NULL /\ call.a.peaks_buffer = NULL
    /\ ret.result = PEAK_FP_INVALID_INPUT

(* ------------------------------------------------------------------ *)
(* C4                                                                   *)
(* ------------------------------------------------------------------ *)
\* some detected candidate of the call a has prominence >= the threshold
SomeCandidateMeetsThreshold(a) ==
    \E c \in DetectedCandidates(a) :
        MeetsThreshold(TopoProminence(a.signal.data, c),
                       EffectiveConfig(a.user_config).prominence_threshold_q16)

IsFlat(signal) == \A i \in 1..Len(signal) : signal[i] = signal[1]

\* the result code is as C4 says for the call in call/ret
NoPeakRule ==
    /\ ret.result \in {PEAK_FP_OK, PEAK_FP_NO_PEAK_FOUND}
    /\ (ret.result = PEAK_FP_NO_PEAK_FOUND) <=> ~SomeCandidateMeetsThreshold(call.a)
    /\ IsFlat(call.a.signal.data) => ret.result = PEAK_FP_NO_PEAK_FOUND

\* C4: for every valid signal of length in [3, MAX_SIGNAL_LENGTH] the entry
\* point returns PEAK_FP_OK or PEAK_FP_NO_PEAK_FOUND, the latter exactly when
\* no detected candidate has prominence >= the prominence threshold (with no
\* candidate at all, or with all of them below it); a flat signal yields
\* PEAK_FP_NO_PEAK_FOUND.
C4_NoPeakExactlyWhenNoneMeetsThreshold ==
    (pc /= "idle" /\ FpCalled /\ ValidCall(call.a)) => NoPeakRule

\* C4 on the calls in which no int32_t operation overflows
C4_WithoutOverflow ==
    (pc /= "idle" /\ FpCalled /\ ValidCall(call.a) /\ ~Overflowing(call.a)) => NoPeakRule

(* ------------------------------------------------------------------ *)
(* C5                                                                   *)
(* ------------------------------------------------------------------ *)
\* find_prominent_peak_fp has returned from a call on signal with user_config
FpReturnedOn(signal, user_config) ==
    /\ FpReturned
    /\ call.a.signal = SignalPtr(signal) /\ call.a.length = Len(signal)
    /\ call.a.peak_index /= NULL
    /\ call.a.user_config = user_config

\* C5: on [10,15,20,25,20,15,10] find_prominent_peak_fp returns
\* PEAK_FP_NO_PEAK_FOUND with the default configuration, and PEAK_FP_OK with
\* index 3 with the relaxed configuration (0.1, 0.05, 5.0).
C5_SmallPeakFilteredByDefault ==
    /\ FpReturnedOn(SmallPeak, NULL) => ret.result = PEAK_FP_NO_PEAK_FOUND
    /\ FpReturnedOn(SmallPeak, custom_config)
          => (ret.result = PEAK_FP_OK /\ ret.peak_index = 3)

\* the half of C5 about the relaxed configuration
C5_RelaxedConfigFindsSmallPeak ==
    FpReturnedOn(SmallPeak, custom_config) => (ret.result = PEAK_FP_OK /\ ret.peak_index = 3)

(* ------------------------------------------------------------------ *)
(* C6                                                                   *)
(* ------------------------------------------------------------------ *)
StrictlyDecreasing(signal) == \A i \in 1..(Len(signal) - 1) : signal[i] > signal[i + 1]
StrictlyIncreasing(signal) == \A i \in 1..(Len(signal) - 1) : signal[i] < signal[i + 1]

\* every sample is above the configured noise floor
AboveNoiseFloor(signal, config) ==
    \A i \in 1..Len(signal) : to_q16(signal[i]) > config.noise_floor_q16

\* C6: with the default configuration, a strictly decreasing signal above the
\* noise floor gives PEAK_FP_OK with index 0, and a strictly increasing one
\* gives PEAK_FP_OK with index length-1.
C6_BoundaryPeakDetected ==
    (FpReturned /\ ValidCall(call.a) /\ call.a.user_config = NULL
       /\ AboveNoiseFloor(call.a.signal.data, default_config_fp))
    => /\ StrictlyDecreasing(call.a.signal.data)
            => (ret.result = PEAK_FP_OK /\ ret.peak_index = 0)
       /\ StrictlyIncreasing(call.a.signal.data)
            => (ret.result = PEAK_FP_OK /\ ret.peak_index = call.a.length - 1)

(* ------------------------------------------------------------------ *)
(* C7                                                                   *)
(* ------------------------------------------------------------------ *)
\* the call a with its prominence threshold replaced by t
WithThreshold(a, t) ==
    [a EXCEPT !.user_config =
        PeakConfigFP(t, EffectiveConfig(a.user_config).gradient_threshold_q16,
                     EffectiveConfig(a.user_config).noise_floor_q16)]

\* the candidates selection accepts: those whose computed prominence is >=
\* the threshold
AcceptedOf(sq, a, cands) ==
    {c \in cands :
        calculate_topological_prominence(sq, a.length, c)
            >= EffectiveConfig(a.user_config).prominence_threshold_q16}

Accepted(a) ==
    AcceptedOf(ConvertLoop(a.signal.data, a.length, ZeroBuffer), a, DetectedCandidates(a))

\* what find_prominent_peak_fp gives for the call a, run from fresh memory
RunAlone(a) == Observed(a, find_prominent_peak_fp(a, ZeroBuffer, ZeroBuffer))

\* thresholds to lower to: those a caller may configure, and a negative one
LowerThresholds(t1) == {t2 \in ProminenceThresholds \cup {0 - Q16_ONE} : t2 <= t1}

\* C7: for a fixed signal, gradient threshold and noise floor and thresholds
\* T2 <= T1, the candidates accepted under T1 are accepted under T2, and when
\* the entry point returns PEAK_FP_OK with index k under T1 it returns
\* PEAK_FP_OK with the same k under T2.
C7_MonotonicThreshold ==
    (FpReturned /\ ValidCall(call.a)) =>
        \A t2 \in LowerThresholds(EffectiveConfig(call.a.user_config).prominence_threshold_q16) :
            /\ Accepted(call.a) \subseteq Accepted(WithThreshold(call.a, t2))
            /\ ret.result = PEAK_FP_OK => RunAlone(WithThreshold(call.a, t2)) = ret

\* a peak was returned under the 25.0 threshold while lowering the threshold
\* to 1.0 accepts a further candidate
C7_Reached ==
    /\ FpReturned /\ ValidCall(call.a) /\ ret.result = PEAK_FP_OK
    /\ EffectiveConfig(call.a.user_config).prominence_threshold_q16 = 25 * Q16_ONE
    /\ Accepted(WithThreshold(call.a, PROMINENCE_THRESHOLD_Q16)) \ Accepted(call.a) /= {}

(* ------------------------------------------------------------------ *)
(* C8                                                                   *)
(* ------------------------------------------------------------------ *)
Reversed(signal) == [i \in 1..Len(signal) |-> signal[Len(signal) + 1 - i]]

\* the call a on the reversed signal
OnReversed(a) == [a EXCEPT !.signal = SignalPtr(Reversed(a.signal.data))]

\* C8: if find_prominent_peak_fp(s) returns PEAK_FP_OK with index k, then on
\* the reversed signal it returns PEAK_FP_OK with the mirrored index L-1-k.
C8_Symmetry ==
    (FpReturned /\ ValidCall(call.a) /\ ret.result = PEAK_FP_OK) =>
        RunAlone(OnReversed(call.a))
            = [result |-> PEAK_FP_OK, peak_index |-> call.a.length - 1 - ret.peak_index]

\* C8 fails without any overflow too, and without a tie in prominence
C8_SymmetryWithoutOverflowOrTie ==
    (FpReturned /\ ValidCall(call.a) /\ ret.result = PEAK_FP_OK
       /\ ~Overflowing(call.a) /\ ~Overflowing(OnReversed(call.a))
       /\ \A c \in DetectedCandidates(call.a) \ {ret.peak_index} :
             TopoProminence(call.a.signal.data, c)
                 /= TopoProminence(call.a.signal.data, ret.peak_index))
    => RunAlone(OnReversed(call.a))
            = [result |-> PEAK_FP_OK, peak_index |-> call.a.length - 1 - ret.peak_index]

(* ------------------------------------------------------------------ *)
(* C9                                                                   *)
(* ------------------------------------------------------------------ *)
\* what the last call gives when it is the first call after start-up
FromFreshMemory ==
    IF call.fn = "find_prominent_peak_fp" THEN RunAlone(call.a)
    ELSE IF call.fn = "find_prominent_peak_fp_buffered"
    THEN Observed(call.a, find_prominent_peak_fp_buffered(call.a, ZeroBuffer, ZeroBuffer))
    ELSE ret

\* the value the last get_peak_prominence_float call gives from fresh memory
ProminenceFromFreshMemory ==
    get_peak_prominence_float(call.a.signal, call.a.length, call.a.peak_index, ZeroBuffer)

\* C9: after any sequence of earlier calls to the three public functions, a
\* call's result code and returned index (and the prominence returned) are
\* those the same call gives from freshly initialised memory: stale contents
\* of s_signal_q16 and s_peak_candidates never influence a result.
C9_ResultIndependentOfEarlierCalls ==
    /\ (pc /= "idle" /\ call.fn \in EntryPoints) => ret = FromFreshMemory
    /\ (pc = "returned" /\ call.fn = "get_peak_prominence_float")
          => ret.value_q16 = ProminenceFromFreshMemory.value_q16

\* a call on a 3-sample signal returned a peak while both static buffers
\* still held entries of a longer, earlier signal
C9_Reached ==
    /\ FpReturned /\ ret.result = PEAK_FP_OK /\ call.a.length = 3
    /\ Extent(sig_mem[s_signal_q16]) > call.a.length
    /\ At(sig_mem[s_signal_q16], call.a.length) /= 0
    /\ Extent(peak_mem[s_peak_candidates]) > 1

(* ------------------------------------------------------------------ *)
(* C10                                                                  *)
(* ------------------------------------------------------------------ *)
\* no scratch buffer of thread t is one of thread u
DisjointBuffers(t, u) ==
    {thr[t].a.signal_q16_buffer, thr[t].a.peaks_buffer}
        \cap {thr[u].a.signal_q16_buffer, thr[u].a.peaks_buffer} = {}

\* thread t is in a call (or back from one) whose scratch buffers no other
\* thread's call has been given
OwnsItsBuffers(t) ==
    \A u \in Threads \ {t} : thr[u].pc /= "idle" => DisjointBuffers(t, u)

\* C10: under every interleaving of two concurrent calls to
\* find_prominent_peak_fp_buffered with disjoint caller-owned scratch buffers,
\* each call returns the result code and index find_prominent_peak_fp returns
\* when run alone on the same signal, length and configuration.
C10_BufferedCallsDoNotInterfere ==
    \A t \in Threads :
        (thr[t].pc = "done" /\ OwnsItsBuffers(t))
            => [result |-> thr[t].result, peak_index |-> thr[t].peak_index]
                   = RunAlone(thr[t].a)

\* thread 1 has returned a peak while thread 2, on another signal, is in the
\* middle of its selection loop
C10_Reached ==
    /\ thr[1].pc = "done" /\ thr[1].result = PEAK_FP_OK
    /\ thr[2].pc = "select" /\ thr[2].sel.i = 1
    /\ thr[1].a.signal /= thr[2].a.signal
    /\ DisjointBuffers(1, 2)

(* ------------------------------------------------------------------ *)
(* C11: round trip and saturation of the Q16.16 conversions             *)
(* ------------------------------------------------------------------ *)
\* floor((q + 2^15) / 2^16): q rounded to the nearest unit, halves upwards
RoundHalfUp(q) ==
    IF q % Q16_ONE >= Q16_HALF THEN (q \div Q16_ONE) + 1 ELSE q \div Q16_ONE

\* x clamped to [INT16_MIN, INT16_MAX]
Saturated(x) == Max(INT16_MIN, IF x > INT16_MAX THEN INT16_MAX ELSE x)

FromQ16Called == pc /= "idle" /\ call.fn \in {"from_q16", "round_trip"}

\* C11 (round trip): from_q16(to_q16(v)) = v for every int16_t v.
C11_RoundTrip ==
    (FromQ16Called /\ call.fn = "round_trip")
        => (ret.result = "value" /\ ret.value = call.a.value)

\* C11: for every int32_t q, from_q16(q) is floor((q + 2^15) / 2^16)
\* clamped to [INT16_MIN, INT16_MAX]; in particular an input that rounds
\* to 32768 yields INT16_MAX, never a wrapped value; and
\* from_q16(to_q16(v)) = v for every int16_t v.
C11_RoundTripAndSaturation ==
    FromQ16Called
        => /\ ret.result = "value"
           /\ ret.value = Saturated(RoundHalfUp(call.a.value_q16))
           /\ call.fn = "round_trip" => ret.value = call.a.value

\* C11 where long has 64 bits: the sum is exact and the claim holds
C11_WithLong64 ==
    (FromQ16Called /\ call.a.long_bits = 64)
        => /\ ret.result = "value"
           /\ ret.value = Saturated(RoundHalfUp(call.a.value_q16))

\* C11 where long has 32 bits: exactly the inputs that round to 32768,
\* the ones the clamp to INT16_MAX is for, overflow the sum; they give
\* INT16_MIN where the sum wraps, and everything else is as claimed
C11_WithLong32 ==
    (FromQ16Called /\ call.a.long_bits = 32)
        => /\ FromQ16Overflows(call.a.value_q16, 32) <=> RoundHalfUp(call.a.value_q16) > INT16_MAX
           /\ ~FromQ16Overflows(call.a.value_q16, 32)
                => (ret.result = "value" /\ ret.value = Saturated(RoundHalfUp(call.a.value_q16)))
           /\ (FromQ16Overflows(call.a.value_q16, 32) /\ ubOutcome = "wrap")
                => (ret.result = "value" /\ ret.value = INT16_MIN)
           /\ (FromQ16Overflows(call.a.value_q16, 32) /\ ubOutcome = "trap")
                => ret.result = TRAPPED

\* from_q16(INT32_MAX) has returned INT16_MIN
C11_Reached ==
    /\ FromQ16Called
    /\ call.a.value_q16 = INT32_MAX
    /\ ret.result = "value"
    /\ ret.value = INT16_MIN

(* ------------------------------------------------------------------ *)
(* C12: find_peak_candidates reports exactly the qualifying indices     *)
(* ------------------------------------------------------------------ *)
Abs(x) == IF x < 0 THEN 0 - x ELSE x

\* the difference g(i) is formed from, in native units: s[1] - s[0] at 0,
\* s[i+1] - s[i-1] at interior i (signal is the 1-based sequence of samples)
GradDiff(signal, i) ==
    IF i = 0 THEN signal[2] - signal[1] ELSE signal[i + 2] - signal[i]

\* the exact g(i) > 0
ExactGradPositive(signal, i) == GradDiff(signal, i) > 0

\* the exact |g(i)| >= threshold_q16: g(0) is the difference times 2^16,
\* g(i) at interior i is half of that, the difference times 2^15
ExactGradMeets(signal, i, threshold_q16) ==
    IF i = 0
    THEN MeetsThreshold(Abs(GradDiff(signal, 0)), threshold_q16)
    ELSE Abs(GradDiff(signal, i)) * (Q16_ONE \div 2) >= threshold_q16

\* index i qualifies as a candidate by the exact values
Qualifies(signal, config, i) ==
    /\ \/ ExactGradPositive(signal, i - 1) /\ ~ExactGradPositive(signal, i)
       \/ signal[i + 1] > signal[i] /\ signal[i + 1] > signal[i + 2]
    /\ to_q16(signal[i + 1]) > config.noise_floor_q16
    /\ ExactGradMeets(signal, i - 1, config.gradient_threshold_q16)

QualifyingIndices(signal, config) ==
    {i \in 1..(Len(signal) - 2) : Qualifies(signal, config, i)}

\* the j-th smallest element of S, counting from 0
Nth(S, j) == CHOOSE x \in S : Cardinality({y \in S : y < x}) = j

\* fc, the result of find_peak_candidates, lists the first
\* min(max_peaks, n) of the n indices in Q in ascending order
ListsFirstOf(fc, Q, max_peaks) ==
    /\ fc.result = PEAK_FP_OK
    /\ fc.num_peaks = (IF Cardinality(Q) < max_peaks THEN Cardinality(Q) ELSE max_peaks)
    /\ \A j \in 0..(fc.num_peaks - 1) : At(fc.peak_indices, j) = Nth(Q, j)

\* find_peak_candidates as the call a runs it
CandidatesOf(a) ==
    find_peak_candidates(ConvertLoop(a.signal.data, a.length, ZeroBuffer),
                         a.length, EffectiveConfig(a.user_config),
                         ZeroBuffer, MAX_PEAKS)

\* the candidate rule holds of the call in call/ret, and after a return
\* s_peak_candidates holds the reported indices
CandidateRule ==
    /\ ListsFirstOf(CandidatesOf(call.a),
                    QualifyingIndices(call.a.signal.data, EffectiveConfig(call.a.user_config)),
                    MAX_PEAKS)
    /\ pc = "returned" =>
          \A j \in 0..(CandidatesOf(call.a).num_peaks - 1) :
              At(peak_mem[s_peak_candidates], j) = At(CandidatesOf(call.a).peak_indices, j)

\* C12: for every signal of length L >= 3 and every configuration,
\* find_peak_candidates stores exactly the first min(max_peaks, n), in
\* ascending order, of the n indices in 1..L-2 that qualify by the exact
\* gradients g (zero crossing or local maximum, above the noise floor, and
\* |g(i-1)| >= the gradient threshold), and returns PEAK_FP_OK.
C12_CandidatesAreTheQualifyingIndices ==
    (pc /= "idle" /\ FpCalled /\ ValidCall(call.a)) => CandidateRule

\* C12 on the calls in which no gradient computation overflows
C12_WithoutOverflow ==
    (pc /= "idle" /\ FpCalled /\ ValidCall(call.a) /\ ~CandidatesOf(call.a).ub)
        => CandidateRule

\* a call with more qualifying indices than MAX_PEAKS has returned with
\* MAX_PEAKS of them stored
C12_CapacityReached ==
    /\ FpReturned /\ ValidCall(call.a)
    /\ Cardinality(QualifyingIndices(call.a.signal.data,
                                     EffectiveConfig(call.a.user_config))) > MAX_PEAKS
    /\ CandidatesOf(call.a).num_peaks = MAX_PEAKS
    /\ CandidateRule

\* on [-32768, 20, 20, -32768] index 2 qualifies (g(1) > 0 >= g(2)) and
\* the call has returned without a candidate
C12_Reached ==
    /\ FpReturnedOn(<<INT16_MIN, 20, 20, INT16_MIN>>, NULL)
    /\ QualifyingIndices(call.a.signal.data, default_config_fp) = {2}
    /\ CandidatesOf(call.a).num_peaks = 0
    /\ ret.result = PEAK_FP_NO_PEAK_FOUND

(* ------------------------------------------------------------------ *)
(* C13: with a positive threshold only strict local maxima are returned *)
(* ------------------------------------------------------------------ *)
\* index k of signal is an interior strict local maximum
StrictLocalMax(signal, k) ==
    /\ 1 <= k /\ k <= Len(signal) - 2
    /\ signal[k + 1] > signal[k]
    /\ signal[k + 1] > signal[k + 2]

\* the prominence the code computes for index c of the call a
CodeProminence(a, c) ==
    calculate_topological_prominence(ConvertLoop(a.signal.data, a.length, ZeroBuffer),
                                     a.length, c)

PositiveThreshold(a) == EffectiveConfig(a.user_config).prominence_threshold_q16 > 0

\* the detected candidates of the call a with a neighbour >= their own value
NonStrictCandidates(a) ==
    {c \in DetectedCandidates(a) : ~StrictLocalMax(a.signal.data, c)}

InInt32(x) == INT32_MIN <= x /\ x <= INT32_MAX

\* every converted sample of the call a fits int32_t
ConvertedSamplesFit(a) ==
    \A i \in 1..a.length : InInt32(to_q16(a.signal.data[i]))

\* every prominence the call a compares against the threshold is the exact
\* (peak - reference) * 2^16
ProminencesExact(a) ==
    \A c \in DetectedCandidates(a) :
        IsQ16Of(CodeProminence(a, c), TopoProminence(a.signal.data, c))

\* no value of the call in call/ret left the int32_t range
NothingOverflows ==
    /\ ConvertedSamplesFit(call.a)
    /\ ~Overflowing(call.a)
    /\ ret.result /= TRAPPED
    /\ ProminencesExact(call.a)

\* the distance between the largest and the smallest sample
Spread(signal) ==
    SetMax({signal[i] : i \in 1..Len(signal)}) - SetMin({signal[i] : i \in 1..Len(signal)})

\* C14: for every signal of int16_t samples over -32768..32767 every value
\* computed in Q16.16 (converted samples, gradient differences, prominences)
\* fits int32_t, so the prominence compared against the threshold is the
\* exact (peak - reference) * 2^16 and never a value wrapped modulo 2^32.
C14_NoOverflowOnFullRange ==
    (pc /= "idle" /\ FpCalled /\ ValidCall(call.a)) => NothingOverflows

\* C14 on the signals whose samples lie within 32767 of each other
C14_WithinHalfRange ==
    (pc /= "idle" /\ FpCalled /\ ValidCall(call.a)
        /\ Spread(call.a.signal.data) <= INT16_MAX)
        => NothingOverflows

\* on [-32768, 32767, -32768] the prominence of index 1, exactly 65535.0,
\* has been computed as -1.0 and the call has returned without a peak
C14_Reached ==
    /\ FpReturnedOn(<<INT16_MIN, INT16_MAX, INT16_MIN>>, NULL)
    /\ DetectedCandidates(call.a) = {1}
    /\ TopoProminence(call.a.signal.data, 1) = INT16_MAX - INT16_MIN
    /\ CodeProminence(call.a, 1) = 0 - Q16_ONE
    /\ ret.result = PEAK_FP_NO_PEAK_FOUND

====
